---- MODULE Spec2Model ----
(***************************************************************************)
(* Model of the file organiser: the filename patterns and extract_title    *)
(* (organise_files.py), the organise() scan and sync passes over a         *)
(* filesystem, the command-line entry point, and the running flag and      *)
(* worker of the terminal shell (organise_files_textual.py).               *)
(*                                                                         *)
(* A filename is a sequence of one-character strings.  A path is a         *)
(* sequence of path components relative to the root directory.             *)
(***************************************************************************)
EXTENDS Integers, Sequences, FiniteSets, TLC

VARIABLES
    filename,   \* extract_title: the argument
    title,      \* extract_title: the value returned
    returned,   \* extract_title: TRUE once the call has returned
    mode,       \* "batch": runs from the command line or by direct call;
                \* "shell": runs started from the terminal shell
    fs,         \* the filesystem
    fs0,        \* the filesystem before the first run
    noUtime,    \* the folders whose timestamps the user may not set
    run,        \* the number of runs started; run t is thread t
    pc,         \* per run: "new", "patch", "scan", "sync", "finally", "logdone", "end"
    root,       \* per run: the root argument
    fsAt,       \* per run: the filesystem when the run started
    todo,       \* per run: entries the scan loop has not visited yet
    subs,       \* per run: entries the sync loop has not visited yet
    moved,      \* per run: the counter moved
    out,        \* per run: the lines printed
    result,     \* per run: "none", "returned", or the error that ended it
    running,    \* OrganiserApp.running
    uiPc,       \* the UI thread: "idle", or "go" inside run_organise
    uiLog,      \* the lines of the log widget
    presses,    \* the number of start requests so far
    printer,    \* builtins.print: 0, or t for the patched_print of worker t
    origPrint   \* per worker: original_print

\* ------------------------------------------------------------------------
\* Character classes of the regular expressions
\* ------------------------------------------------------------------------
Whitespace == {" ", "\t", "\n", "\r", "\f"}

Digits == {"0", "1", "2", "3", "4", "5", "6", "7", "8", "9"}

HexDigits == Digits \cup {"a", "b", "c", "d", "e", "f", "A", "B", "C", "D", "E", "F"}

Letters ==
    {"a", "b", "c", "d", "e", "f", "g", "h", "i", "j", "k", "l", "m",
     "n", "o", "p", "q", "r", "s", "t", "u", "v", "w", "x", "y", "z",
     "A", "B", "C", "D", "E", "F", "G", "H", "I", "J", "K", "L", "M",
     "N", "O", "P", "Q", "R", "S", "T", "U", "V", "W", "X", "Y", "Z"}

Alnum == Letters \cup Digits

IsWs(c) == c \in Whitespace
IsDigit(c) == c \in Digits
IsHex(c) == c \in HexDigits
IsAlnum(c) == c \in Alnum
NotCloseBracket(c) == c # "]"
NotCloseParen(c) == c # ")"
\* "." of the patterns: any character but a newline
AnyChar(c) == c # "\n"

\* the character classes by name: c belongs to class k
InClass(k, c) ==
    CASE k = "ws" -> IsWs(c)
      [] k = "digit" -> IsDigit(c)
      [] k = "hex" -> IsHex(c)
      [] k = "alnum" -> IsAlnum(c)
      [] k = "notbracket" -> NotCloseBracket(c)
      [] k = "notparen" -> NotCloseParen(c)
      [] k = "any" -> AnyChar(c)

\* INVALID_CHARS
InvalidChars == {"\\", "/", ":", "*", "?", "\"", "<", ">", "|"}

SetMax(S) == CHOOSE x \in S : \A y \in S : y <= x
SetMin(S) == CHOOSE x \in S : \A y \in S : x <= y

\* ------------------------------------------------------------------------
\* Matching: a set of positions I (index of the next character to read)
\* is carried through the fragments of a pattern.
\* ------------------------------------------------------------------------
\* one literal character c
Lit(s, c, I) == UNION {IF i <= Len(s) /\ s[i] = c THEN {i + 1} ELSE {} : i \in I}

\* one character of class k
One(s, k, I) == UNION {IF i <= Len(s) /\ InClass(k, s[i]) THEN {i + 1} ELSE {} : i \in I}

\* k+ : one or more characters of class k
Plus(s, k, I) ==
    UNION {{j \in (i + 1)..(Len(s) + 1) : \A n \in i..(j - 1) : InClass(k, s[n])} : i \in I}

\* k* : zero or more characters of class k
Star(s, k, I) ==
    UNION {{j \in i..(Len(s) + 1) : \A n \in i..(j - 1) : InClass(k, s[n])} : i \in I}

\* $ : the end of the string, or just before a final newline
AtEnd(s, I) == \E i \in I : i = Len(s) + 1 \/ (i = Len(s) /\ s[i] = "\n")

\* \.[A-Za-z0-9]+$
Extension(s, I) == AtEnd(s, Plus(s, "alnum", Lit(s, ".", I)))

\* \s*-\s*
Separator(s, I) == Star(s, "ws", Lit(s, "-", Star(s, "ws", I)))

\* (?:\.\d+)?
OptFraction(s, I) == UNION {{i} \cup Plus(s, "digit", Lit(s, ".", {i})) : i \in I}

\* (?:v\d+)?
OptVersion(s, I) == UNION {{i} \cup Plus(s, "digit", Lit(s, "v", {i})) : i \in I}

\* (?:\s*\([^)]+\))?
OptQuality(s, I) ==
    UNION {{i} \cup Lit(s, ")", Plus(s, "notparen", Lit(s, "(", Star(s, "ws", {i})))) : i \in I}

\* \s*\[[0-9A-Fa-f]+\]
Hash(s, I) == Lit(s, "]", Plus(s, "hex", Lit(s, "[", Star(s, "ws", I))))

\* \(\d{4}\)
Year(s, I) ==
    Lit(s, ")", One(s, "digit", One(s, "digit", One(s, "digit", One(s, "digit", Lit(s, "(", I))))))

\* what follows the title in the episode pattern, read from position e
EpisodeRest(s, e) ==
    Extension(s, Hash(s, OptQuality(s, OptVersion(s, OptFraction(s,
        Plus(s, "digit", Separator(s, {e})))))))

\* what follows the title in the movie pattern, read from position e
MovieRest(s, e) == Extension(s, Star(s, "any", Year(s, Star(s, "ws", {e}))))

\* \[[^\]]+\]\s+ read from position b: the positions where the title may start
GroupPrefix(s, b) ==
    Plus(s, "ws", Lit(s, "]", Plus(s, "notbracket", Lit(s, "[", {b}))))

\* all characters of s[a..e-1] are matched by "."
DotRun(s, a, e) == \A k \in a..(e - 1) : AnyChar(s[k])

\* The ways the episode pattern matches s: b is the end of the leading \s*,
\* g = 1 for the group; the title is s[a..e-1].
EpisodeMatches(s) ==
    {m \in [b : Star(s, "ws", {1}), g : {1}, a : 1..(Len(s) + 1),
            e : {e \in 1..(Len(s) + 1) : EpisodeRest(s, e)}] :
        m.a \in GroupPrefix(s, m.b) /\ m.a <= m.e /\ DotRun(s, m.a, m.e)}

\* The ways the movie pattern matches s: b is the end of the leading \s*,
\* g = 1 when the optional group is taken; the title is s[a..e-1].
MovieMatches(s) ==
    {m \in [b : Star(s, "ws", {1}), g : {0, 1}, a : 1..(Len(s) + 1),
            e : {e \in 1..(Len(s) + 1) : MovieRest(s, e)}] :
        /\ IF m.g = 1 THEN m.a \in GroupPrefix(s, m.b) ELSE m.a = m.b
        /\ m.a < m.e
        /\ DotRun(s, m.a, m.e)}

\* a greedy title: of two title ends, the later one is tried first
GreedyOrder(d, e) == d >= e

\* the lazy quantifier of the title (.*? and .+?): of two title ends, the
\* earlier one is tried first
LazyOrder(d, e) == d <= e

\* the order in which the backtracking search reaches two matches: the
\* quantifiers before the title (\s*, the optional group, \s+) are greedy
Before(m, n) ==
    \/ m.b > n.b
    \/ m.b = n.b /\ m.g > n.g
    \/ m.b = n.b /\ m.g = n.g /\ m.a > n.a
    \/ m.b = n.b /\ m.g = n.g /\ m.a = n.a /\ LazyOrder(m.e, n.e)

\* m.group("title") of the match the search reaches first
FirstTitle(s, M) == UNION {{SubSeq(s, m.a, m.e - 1) : m \in {n \in Ms : \A o \in Ms : Before(n, o)}} : Ms \in {M}}

\* str.strip()
Strip(s) ==
    LET keep == {i \in 1..Len(s) : ~IsWs(s[i])}
    IN  IF keep = {} THEN <<>> ELSE SubSeq(s, SetMin(keep), SetMax(keep))

sanitize(name) ==
    Strip([i \in 1..Len(name) |-> IF name[i] \in InvalidChars THEN "_" ELSE name[i]])

\* the value None
None == [matched |-> FALSE, title |-> <<>>]

\* the first pattern that matches decides; FirstTitle holds its one capture
extract_title(fname) ==
    LET Try(captures, otherwise) ==
            IF captures = {} THEN otherwise
            ELSE [matched |-> TRUE, title |-> sanitize(CHOOSE c \in captures : TRUE)]
    IN  CHOOSE r \in {Try(E, Try(M, None)) :
                        E \in {FirstTitle(fname, EpisodeMatches(fname))},
                        M \in {FirstTitle(fname, MovieMatches(fname))}} : TRUE

\* ------------------------------------------------------------------------
\* The filesystem: a function from paths to nodes.  <<>> is the directory
\* given as root, <<DotDot>> its parent directory.
\* ------------------------------------------------------------------------
MaxTime == 2

\* the time of the run: later than every timestamp of the initial filesystem
Now == MaxTime + 1

Dot == <<".">>
DotDot == <<".", ".">>

nM1 == <<"X", " ", "(", "2", "0", "1", "8", ")", ".", "m">>
nM2 == <<"[", "G", "]", " ", "X", " ", "(", "2", "0", "1", "9", ")", ".", "m">>
nE1 == <<"[", "G", "]", " ", "Y", " ", "-", " ", "0", "1", " ", "[", "A", "B", "]", ".", "m">>
nN1 == <<"r", ".", "t", "x", "t">>
nDD == <<".", ".", " ", "(", "2", "0", "1", "8", ")", ".", "m">>
nD  == <<".", " ", "(", "2", "0", "1", "8", ")", ".", "m">>
nYD == <<"Y", " ", "(", "2", "0", "1", "8", ")", ".", "m">>
tX  == <<"X">>
tY  == <<"Y">>
tZ  == <<"Z">>
nSub  == <<"s">>
nDeep == <<"d", ".", "m">>

File(c, m) == [kind |-> "file", content |-> c, mtime |-> m, atime |-> m]
Dir(m) == [kind |-> "dir", content |-> 0, mtime |-> m, atime |-> m]

Exists(f, p) == p \in DOMAIN f

\* Path.exists() of the collision test, wrongly answering no
NeverExists(f, p) == FALSE

\* target.exists()
TargetExists(f, p) == Exists(f, p)

\* Path.is_dir()
IsDir(f, p) == p \in DOMAIN f /\ f[p].kind = "dir"

\* Path.is_file()
IsFile(f, p) == p \in DOMAIN f /\ f[p].kind = "file"

Parent(p) == SubSeq(p, 1, Len(p) - 1)

\* root / name, as pathlib and the operating system resolve it
Join(base, name) ==
    IF name = Dot THEN base
    ELSE IF name = DotDot /\ base # <<>> /\ base[Len(base)] # DotDot THEN Parent(base)
    ELSE Append(base, name)

Put(f, p, node) == [q \in DOMAIN f \cup {p} |-> IF q = p THEN node ELSE f[q]]

Remove(f, p) == [q \in DOMAIN f \ {p} |-> f[q]]

\* the operating system stamps a directory whose entries change
Touch(f, p) == IF p \in DOMAIN f THEN [f EXCEPT ![p].mtime = Now] ELSE f

\* os.listdir: the names of the entries of directory p
Listing(f, p) ==
    {q[Len(q)] : q \in {r \in DOMAIN f : Len(r) = Len(p) + 1 /\ Parent(r) = p /\ r[Len(r)] # DotDot}}

\* a listing that yields nothing for a path that is not a directory
iterdir_lenient(f, p) == [err |-> "", names |-> IF IsDir(f, p) THEN Listing(f, p) ELSE {}]

\* Path.iterdir(): the entries, or the error os.listdir raises
iterdir(f, p) ==
    IF ~Exists(f, p) THEN [err |-> "FileNotFoundError", names |-> {}]
    ELSE IF ~IsDir(f, p) THEN [err |-> "NotADirectoryError", names |-> {}]
    ELSE [err |-> "", names |-> Listing(f, p)]

\* Path.mkdir(exist_ok=True)
mkdir(f, p) ==
    IF ~Exists(f, p) THEN [err |-> "", fs |-> Touch(Put(f, p, Dir(Now)), Parent(p))]
    ELSE IF IsDir(f, p) THEN [err |-> "", fs |-> f]
    ELSE [err |-> "FileExistsError", fs |-> f]

\* shutil.move(src, dst) of a file to a path that does not exist
move(f, src, dst) ==
    IF ~Exists(f, src) THEN [err |-> "FileNotFoundError", fs |-> f]
    ELSE [err |-> "", fs |-> Touch(Touch(Put(Remove(f, src), dst, f[src]), Parent(src)), Parent(dst))]

\* folder.rglob("*") filtered by is_file()
FilesUnder(f, folder) ==
    {q \in DOMAIN f : Len(q) > Len(folder) /\ SubSeq(q, 1, Len(folder)) = folder /\ f[q].kind = "file"}

\* the oldest file, where the newest is meant
oldest(T) == SetMin(T)

\* max(mtimes)
newest(T) == SetMax(T)

\* sync_folder_mtime(folder); os.utime raises on the folders in locked
sync_folder_mtime(f, locked, folder) ==
    LET mtimes == {f[q].mtime : q \in FilesUnder(f, folder)}
    IN  IF mtimes = {} THEN [err |-> "", fs |-> f]
        ELSE IF folder \in locked THEN [err |-> "PermissionError", fs |-> f]
        ELSE [err |-> "", fs |-> [f EXCEPT ![folder].mtime = newest(mtimes),
                                              ![folder].atime = newest(mtimes)]]

\* ------------------------------------------------------------------------
\* Lines printed
\* ------------------------------------------------------------------------
SkippedLine(target) == [kind |-> "skipped", name |-> target[Len(target)], where |-> target, count |-> 0]
MovedLine(name, dest) == [kind |-> "moved", name |-> name, where |-> dest, count |-> 0]
SummaryLine(n) == [kind |-> "summary", name |-> <<>>, where |-> <<>>, count |-> n]

\* a counter that is not advanced
SameCount(n) == n

\* moved += 1
NextCount(n) == n + 1

\* a check that lets every file through
TitleAssumed(t) == FALSE

\* "if not title": no match, or an empty title
NoTitle(t) == ~t.matched \/ t.title = <<>>

\* extract_title on the names that occur in the model, computed once
Names == {nM1, nM2, nE1, nN1, nDD, nD, nYD, tX, tY, tZ, nSub, nDeep}
TitleTable == [n \in Names |-> extract_title(n)]
TitleOf(name) == IF name \in Names THEN TitleTable[name] ELSE extract_title(name)

\* Lines 94-104 for the file called name of the root base, whose title is t.
PlaceFile(f, base, name, t) ==
    LET entry    == Append(base, name)
        dest_dir == Join(base, t)
        made     == mkdir(f, dest_dir)
        target   == Append(dest_dir, name)
        mv       == move(made.fs, entry, target)
    IN  IF made.err # "" THEN [what |-> "raised", err |-> made.err, fs |-> f, line |-> <<>>]
        ELSE IF TargetExists(made.fs, target)
        THEN [what |-> "collision", err |-> "", fs |-> made.fs, line |-> <<SkippedLine(target)>>]
        ELSE IF mv.err # "" THEN [what |-> "raised", err |-> mv.err, fs |-> made.fs, line |-> <<>>]
        ELSE [what |-> "moved", err |-> "", fs |-> mv.fs, line |-> <<MovedLine(name, dest_dir)>>]

\* One iteration of the scan loop of organise (lines 86-104) on the entry
\* called name of the root base, in filesystem f.
ScanEntry(f, base, name) ==
    IF IsDir(f, Append(base, name)) THEN [what |-> "dir", err |-> "", fs |-> f, line |-> <<>>]
    ELSE CHOOSE r \in {IF NoTitle(t) THEN [what |-> "notitle", err |-> "", fs |-> f, line |-> <<>>]
                       ELSE PlaceFile(f, base, name, t.title) : t \in {TitleOf(name)}} : TRUE

\* ------------------------------------------------------------------------
\* Names and initial filesystems
\* ------------------------------------------------------------------------
MaxRootFiles == 2
MaxRuns == 2
MaxPresses == 3

Threads == 1..MaxRuns

RootNames == <<nM1, nM2, nE1, nN1, nDD, nD>>

\* the root directory and its parent
Bare == (<<>> :> Dir(1)) @@ (<<DotDot>> :> Dir(1))

\* what lies in the root besides loose files: nothing; a folder with a
\* namesake of a loose file; folders with files at depth; a folder holding a
\* directory that bears the name of a loose file, and an empty folder that
\* bears a movie name; a regular file that bears a title; a namesake of a
\* loose file in the parent of the root
Layouts ==
    { Bare,
      Bare @@ (<<tX>> :> Dir(1)) @@ (<<tX, nM1>> :> File(11, 1)),
      Bare @@ (<<tX>> :> Dir(1)) @@ (<<tX, nSub>> :> Dir(1)) @@ (<<tX, nSub, nDeep>> :> File(12, 2))
           @@ (<<tZ>> :> Dir(2)) @@ (<<tZ, nDeep>> :> File(13, 1)),
      Bare @@ (<<tX>> :> Dir(1)) @@ (<<tX, nM1>> :> Dir(1)) @@ (<<nYD>> :> Dir(2)),
      Bare @@ (<<tX>> :> File(14, 1)),
      Bare @@ (<<tX>> :> Dir(2)) @@ (<<DotDot, nDD>> :> File(15, 1)) }

\* the loose files: file RootNames[i] with content i and mtime m[i]
Loose(I, m) == [p \in {<<RootNames[i]>> : i \in I} |->
                    LET i == CHOOSE j \in I : <<RootNames[j]>> = p IN File(i, m[i])]

\* the arguments a run may be given: the root, and the path of r.txt, which
\* is a file in some initial filesystems and does not exist in the others
Roots == {<<>>, <<nN1>>}

orgVars == <<mode, fs, fs0, noUtime, run, pc, root, fsAt, todo, subs, moved, out, result,
             running, uiPc, uiLog, presses, printer, origPrint>>

vars == <<filename, title, returned, orgVars>>

\* extract_title is not under study in the runs of organise
TitleIdle == filename = <<>> /\ title = None /\ returned = FALSE

ThreadsInit ==
    /\ fs0 = fs
    /\ run = 0
    /\ pc = [t \in Threads |-> "new"]
    /\ root = [t \in Threads |-> <<>>]
    /\ fsAt = [t \in Threads |-> fs]
    /\ todo = [t \in Threads |-> {}]
    /\ subs = [t \in Threads |-> {}]
    /\ moved = [t \in Threads |-> 0]
    /\ out = [t \in Threads |-> <<>>]
    /\ result = [t \in Threads |-> "none"]
    /\ running = FALSE
    /\ uiPc = "idle"
    /\ uiLog = <<>>
    /\ presses = 0
    /\ printer = 0
    /\ origPrint = [t \in Threads |-> 0]

BatchInit ==
    /\ mode = "batch"
    /\ \E I \in SUBSET (1..Len(RootNames)) :
         /\ Cardinality(I) <= MaxRootFiles
         /\ \E layout \in Layouts :
              fs = Loose(I, [i \in I |-> 1 + ((i + 1) % MaxTime)]) @@ layout
    /\ noUtime \in {{}, {<<tZ>>}}
    /\ noUtime \subseteq DOMAIN fs

ShellInit ==
    /\ mode = "shell"
    /\ \E I \in SUBSET {1, 4} : \E layout \in Layouts :
         fs = Loose(I, [i \in I |-> 1]) @@ layout
    /\ noUtime = {}

Init == TitleIdle /\ (BatchInit \/ ShellInit) /\ ThreadsInit

\* ------------------------------------------------------------------------
\* organise(root), run by thread t
\* ------------------------------------------------------------------------
\* where a thread goes when organise returns or raises
AfterOrganise == IF mode = "shell" THEN "finally" ELSE "end"

\* print(line): patched_print also writes to the log widget, on the UI thread
CanPrint == printer = 0 \/ uiPc = "idle"
Logged(lines) == IF printer = 0 THEN uiLog ELSE uiLog \o lines

\* the call of organise(rt): "for entry in root.iterdir()" lists the root
Enter(t, rt) ==
    \E ls \in {iterdir(fs, rt)} :
        /\ root' = [root EXCEPT ![t] = rt]
        /\ fsAt' = [fsAt EXCEPT ![t] = fs]
        /\ IF ls.err # ""
           THEN /\ result' = [result EXCEPT ![t] = ls.err]
                /\ pc' = [pc EXCEPT ![t] = AfterOrganise]
                /\ UNCHANGED todo
           ELSE /\ todo' = [todo EXCEPT ![t] = ls.names]
                /\ pc' = [pc EXCEPT ![t] = "scan"]
                /\ UNCHANGED result

\* a new run may start: the bound allows it and the run before has ended
MayInvoke == mode = "batch" /\ run < MaxRuns /\ (run > 0 => pc[run] = "end")

\* python organise_files.py rt  (lines 115-119)
CliMain(rt) ==
    /\ MayInvoke
    /\ run' = run + 1
    /\ IF ~IsDir(fs, rt)
       THEN /\ result' = [result EXCEPT ![run + 1] = "SystemExit"]
            /\ pc' = [pc EXCEPT ![run + 1] = "end"]
            /\ root' = [root EXCEPT ![run + 1] = rt]
            /\ fsAt' = [fsAt EXCEPT ![run + 1] = fs]
            /\ UNCHANGED todo
       ELSE Enter(run + 1, rt)
    /\ UNCHANGED <<filename, title, returned, mode, fs, fs0, noUtime, subs, moved, out,
                   running, uiPc, uiLog, presses, printer, origPrint>>

\* organise(rt) called directly
DirectCall(rt) ==
    /\ MayInvoke
    /\ run' = run + 1
    /\ Enter(run + 1, rt)
    /\ UNCHANGED <<filename, title, returned, mode, fs, fs0, noUtime, subs, moved, out,
                   running, uiPc, uiLog, presses, printer, origPrint>>

\* one iteration of the scan loop (lines 86-104)
ScanStep(t, name) ==
    /\ pc[t] = "scan"
    /\ name \in todo[t]
    /\ \E r \in {ScanEntry(fs, root[t], name)} :
           /\ r.line # <<>> => CanPrint
           /\ fs' = r.fs
           /\ out' = [out EXCEPT ![t] = @ \o r.line]
           /\ uiLog' = Logged(r.line)
           /\ moved' = [moved EXCEPT ![t] = IF r.what = "moved" THEN NextCount(@) ELSE @]
           /\ IF r.what = "raised"
              THEN /\ result' = [result EXCEPT ![t] = r.err]
                   /\ pc' = [pc EXCEPT ![t] = AfterOrganise]
                   /\ UNCHANGED todo
              ELSE /\ todo' = [todo EXCEPT ![t] = @ \ {name}]
                   /\ UNCHANGED <<result, pc>>
    /\ UNCHANGED <<filename, title, returned, mode, fs0, noUtime, run, root, fsAt, subs,
                   running, uiPc, presses, printer, origPrint>>

\* the scan loop is exhausted: "for sub in root.iterdir()" lists the root again
BeginSync(t) ==
    /\ pc[t] = "scan"
    /\ todo[t] = {}
    /\ \E ls \in {iterdir(fs, root[t])} :
           IF ls.err # ""
           THEN /\ result' = [result EXCEPT ![t] = ls.err]
                /\ pc' = [pc EXCEPT ![t] = AfterOrganise]
                /\ UNCHANGED subs
           ELSE /\ subs' = [subs EXCEPT ![t] = ls.names]
                /\ pc' = [pc EXCEPT ![t] = "sync"]
                /\ UNCHANGED result
    /\ UNCHANGED <<filename, title, returned, mode, fs, fs0, noUtime, run, root, fsAt, todo,
                   moved, out, running, uiPc, uiLog, presses, printer, origPrint>>

\* one iteration of the sync loop (lines 107-109)
SyncStep(t, name) ==
    /\ pc[t] = "sync"
    /\ name \in subs[t]
    /\ \E r \in {IF IsDir(fs, Append(root[t], name))
                  THEN sync_folder_mtime(fs, noUtime, Append(root[t], name))
                  ELSE [err |-> "", fs |-> fs]} :
           /\ fs' = r.fs
           /\ IF r.err # ""
              THEN /\ result' = [result EXCEPT ![t] = r.err]
                   /\ pc' = [pc EXCEPT ![t] = AfterOrganise]
                   /\ UNCHANGED subs
              ELSE /\ subs' = [subs EXCEPT ![t] = @ \ {name}]
                   /\ UNCHANGED <<result, pc>>
    /\ UNCHANGED <<filename, title, returned, mode, fs0, noUtime, run, root, fsAt, todo,
                   moved, out, running, uiPc, uiLog, presses, printer, origPrint>>

\* the sync loop is exhausted: the summary is printed and organise returns (line 111)
Finish(t) ==
    /\ pc[t] = "sync"
    /\ subs[t] = {}
    /\ CanPrint
    /\ out' = [out EXCEPT ![t] = Append(@, SummaryLine(moved[t]))]
    /\ uiLog' = Logged(<<SummaryLine(moved[t])>>)
    /\ result' = [result EXCEPT ![t] = "returned"]
    /\ pc' = [pc EXCEPT ![t] = AfterOrganise]
    /\ UNCHANGED <<filename, title, returned, mode, fs, fs0, noUtime, run, root, fsAt, todo,
                   subs, moved, running, uiPc, presses, printer, origPrint>>

\* ------------------------------------------------------------------------
\* The terminal shell (OrganiserApp)
\* ------------------------------------------------------------------------
ErrorLine(folder) == [kind |-> "error", name |-> <<>>, where |-> folder, count |-> 0]
StartLine(folder) == [kind |-> "organising", name |-> <<>>, where |-> folder, count |-> 0]
DoneLine == [kind |-> "done", name |-> <<>>, where |-> <<>>, count |-> 0]

\* a start request that does not look at the flag
IgnoreRunning(flag) == FALSE

\* "if self.running: return"
AlreadyRunning(flag) == flag

\* the Start button: on_button_pressed calls run_organise, which reads the
\* flag (lines 68-69, 83-84)
PressStart ==
    /\ mode = "shell"
    /\ uiPc = "idle"
    /\ presses < MaxPresses
    /\ run < MaxRuns
    /\ presses' = presses + 1
    /\ uiPc' = IF AlreadyRunning(running) THEN "idle" ELSE "go"
    /\ UNCHANGED <<filename, title, returned, mode, fs, fs0, noUtime, run, pc, root, fsAt,
                   todo, subs, moved, out, result, running, uiLog, printer, origPrint>>

\* the rest of run_organise, with the folder of the path input (lines 85-91)
RunOrganise(folder) ==
    /\ uiPc = "go"
    /\ uiPc' = "idle"
    /\ IF ~IsDir(fs, folder)
       THEN /\ uiLog' = Append(uiLog, ErrorLine(folder))
            /\ UNCHANGED <<running, run, pc, root>>
       ELSE /\ uiLog' = Append(uiLog, StartLine(folder))
            /\ running' = TRUE
            /\ run' = run + 1
            /\ pc' = [pc EXCEPT ![run + 1] = "patch"]
            /\ root' = [root EXCEPT ![run + 1] = folder]
    /\ UNCHANGED <<filename, title, returned, mode, fs, fs0, noUtime, fsAt, todo, subs,
                   moved, out, result, presses, printer, origPrint>>

\* _worker: print is patched and organise(folder) is called (lines 94-102)
WorkerCall(t) ==
    /\ pc[t] = "patch"
    /\ origPrint' = [origPrint EXCEPT ![t] = printer]
    /\ printer' = t
    /\ Enter(t, root[t])
    /\ UNCHANGED <<filename, title, returned, mode, fs, fs0, noUtime, run, subs, moved, out,
                   running, uiPc, uiLog, presses>>

\* _worker, finally: print is restored and the flag cleared (lines 103-105)
WorkerFinally(t) ==
    /\ pc[t] = "finally"
    /\ printer' = origPrint[t]
    /\ running' = FALSE
    /\ pc' = [pc EXCEPT ![t] = "logdone"]
    /\ UNCHANGED <<filename, title, returned, mode, fs, fs0, noUtime, run, root, fsAt, todo,
                   subs, moved, out, result, uiPc, uiLog, presses, origPrint>>

\* _worker, finally: log_write of the closing line, on the UI thread (line 106)
WorkerLogDone(t) ==
    /\ pc[t] = "logdone"
    /\ uiPc = "idle"
    /\ uiLog' = Append(uiLog, DoneLine)
    /\ pc' = [pc EXCEPT ![t] = "end"]
    /\ UNCHANGED <<filename, title, returned, mode, fs, fs0, noUtime, run, root, fsAt, todo,
                   subs, moved, out, result, running, uiPc, presses, printer, origPrint>>

Next ==
    \/ \E rt \in Roots : CliMain(rt)
    \/ \E rt \in Roots : DirectCall(rt)
    \/ \E t \in Threads : \E name \in todo[t] : ScanStep(t, name)
    \/ \E t \in Threads : BeginSync(t)
    \/ \E t \in Threads : \E name \in subs[t] : SyncStep(t, name)
    \/ \E t \in Threads : Finish(t)
    \/ PressStart
    \/ \E folder \in Roots : RunOrganise(folder)
    \/ \E t \in Threads : WorkerCall(t)
    \/ \E t \in Threads : WorkerFinally(t)
    \/ \E t \in Threads : WorkerLogDone(t)

Spec == Init /\ [][Next]_vars

\* ------------------------------------------------------------------------
\* extract_title called on one filename
\* ------------------------------------------------------------------------
MaxFrags == 4

Frags ==
    {<<"[", "G", "]", " ">>,
     <<"T">>,
     <<" ">>,
     <<"(", "2", "0", "1", "8", ")">>,
     <<".", "m">>,
     <<":">>,
     <<" ", "-", " ", "0", "1", " ", "[", "A", "B", "]">>}

RECURSIVE Concat(_)
Concat(parts) == IF parts = <<>> THEN <<>> ELSE Head(parts) \o Concat(Tail(parts))

TitleInputs == {Concat(parts) : parts \in UNION {[1..n -> Frags] : n \in 1..MaxFrags}}

TitleInit ==
    /\ filename \in TitleInputs
    /\ title = None
    /\ returned = FALSE
    /\ mode = "title"
    /\ fs = Bare
    /\ noUtime = {}
    /\ ThreadsInit

Extract ==
    /\ ~returned
    /\ title' = extract_title(filename)
    /\ returned' = TRUE
    /\ UNCHANGED <<filename, orgVars>>

TitleNext == Extract

TitleSpec == TitleInit /\ [][TitleNext]_vars

\* ------------------------------------------------------------------------
\* Properties of extract_title
\* ------------------------------------------------------------------------
\* a parenthesized 4-digit year token starts at position i of s
YearAt(s, i) ==
    /\ i + 5 <= Len(s)
    /\ s[i] = "("
    /\ \A k \in 1..4 : s[i + k] \in Digits
    /\ s[i + 5] = ")"

YearsFrom(s, from) == {i \in from..Len(s) : YearAt(s, i)}

\* the first character of s that is not whitespace, from position i on
SkipWs(s, i) == SetMin({j \in i..(Len(s) + 1) : j = Len(s) + 1 \/ s[j] \notin Whitespace})

\* the closing bracket of a leading [Group] that whitespace follows, or 0
GroupClose(s) ==
    LET w == SkipWs(s, 1)
        C == {c \in (w + 2)..(Len(s) - 1) :
                /\ s[w] = "["
                /\ s[c] = "]"
                /\ \A k \in (w + 1)..(c - 1) : s[k] # "]"
                /\ s[c + 1] \in Whitespace}
    IN  IF C = {} THEN 0 ELSE SetMin(C)

\* where the title starts: after the leading whitespace and [Group] prefix
TitleStart(s) ==
    IF GroupClose(s) = 0 THEN SkipWs(s, 1) ELSE SkipWs(s, GroupClose(s) + 1)

MovieShape(s) == EpisodeMatches(s) = {} /\ MovieMatches(s) # {}

LooseFiles(f, base) == {n \in Listing(f, base) : IsFile(f, Append(base, n))}

\* the directories directly under base
Folders(f, base) == {Append(base, n) : n \in {m \in Listing(f, base) : IsDir(f, Append(base, m))}}

\* the regular files directly under base that extract_title gives a title
Titled(f, base) == {n \in LooseFiles(f, base) : ~NoTitle(TitleOf(n))}

\* where organise puts the titled file n of base
TargetOf(base, n) == Append(Join(base, TitleOf(n).title), n)

Lines(t, k) == {i \in 1..Len(out[t]) : out[t][i].kind = k}

\* thread t is in organise or about to clear the running flag
Active(t) == pc[t] \in {"patch", "scan", "sync", "finally"}

\* C1: when the scan loop visits a titled root file whose destination path
\* root/<title>/<name> exists, the step changes nothing in the filesystem
\* (the source stays, the destination keeps content and mtime, no entry is
\* added or renamed) and prints the skip line.
C1_CollisionSkips ==
    [][\A t \in Threads : \A n \in todo[t] \ todo'[t] :
          (pc[t] = "scan" /\ n \in Titled(fs, root[t]) /\ Exists(fs, TargetOf(root[t], n)))
              => /\ fs' = fs
                 /\ moved' = moved
                 /\ out'[t] = Append(out[t], SkippedLine(TargetOf(root[t], n)))]_vars

\* a run has returned after skipping a file whose namesake lies in the folder
C1_Witness ==
    \E t \in Threads : \E i \in Lines(t, "skipped") :
        /\ result[t] = "returned"
        /\ Len(out[t][i].where) = 2
        /\ IsFile(fs, out[t][i].where)
        /\ IsFile(fs, Append(root[t], out[t][i].name))

\* C2 as stated: a second run on the same root moves nothing, reports the
\* summary count 0 and leaves every entry where the first run left it.
C2_SecondRunIdle ==
    (mode = "batch" /\ run = 2 /\ pc[2] = "end" /\ IsDir(fs0, root[1]) /\ root[2] = root[1])
        => /\ moved[2] = 0
           /\ out[2] # <<>>
           /\ out[2][Len(out[2])] = SummaryLine(0)
           /\ DOMAIN fs = DOMAIN fsAt[2]

\* The same, for a first run that returned: it holds.  C2 fails only after a
\* first run that an exception ended (FileExistsError of mkdir, or the
\* PermissionError of os.utime that C9 is about).
C2_AfterCompletedRun ==
    (mode = "batch" /\ run = 2 /\ pc[2] = "end" /\ result[1] = "returned" /\ root[2] = root[1])
        => /\ moved[2] = 0
           /\ out[2] # <<>>
           /\ out[2][Len(out[2])] = SummaryLine(0)
           /\ DOMAIN fs = DOMAIN fsAt[2]

\* path p leads out of the root
Outside(p) == p # <<>> /\ p[1] = DotDot

\* C3 as stated: every entry that organise adds to the filesystem lies
\* inside the root: it is the folder root/<title> of a titled root file, a
\* direct child of root, or that file at root/<title>/<name>.
C3_DestinationsUnderRoot ==
    \A p \in DOMAIN fs \ DOMAIN fs0 :
        /\ ~Outside(p)
        /\ \E n \in Titled(fs0, <<>>) :
              \/ fs[p].kind = "dir" /\ p = <<TitleOf(n).title>>
              \/ fs[p].kind = "file" /\ p = <<TitleOf(n).title, n>>

\* C4: a run given a root that is not a directory ends at once with an
\* error and without a change to the filesystem or a line printed; the
\* shell's start action then logs the error and starts no worker.
C4_InvalidRoot ==
    [][/\ \A t \in Threads :
            (pc[t] = "new" /\ pc'[t] # "new" /\ ~IsDir(fs, root'[t]))
                => /\ fs' = fs
                   /\ pc'[t] = "end"
                   /\ result'[t] \in {"SystemExit", "FileNotFoundError", "NotADirectoryError"}
                   /\ out' = out
       /\ (uiPc = "go" /\ uiPc' = "idle" /\ ~IsDir(fs, uiLog'[Len(uiLog')].where))
                => /\ fs' = fs
                   /\ uiLog' = Append(uiLog, ErrorLine(uiLog'[Len(uiLog')].where))
                   /\ run' = run
                   /\ pc' = pc
                   /\ running' = running]_vars

\* the command line was given a file as root and exited with the error
C4_Witness ==
    \E t \in Threads :
        /\ pc[t] = "end"
        /\ result[t] = "SystemExit"
        /\ IsFile(fs, root[t])
        /\ fs = fs0

\* C5: at most one thread is in organise at any time, and a start request
\* made while the running flag is set starts no worker and logs nothing.
C5_OneRunAtATime ==
    [][/\ Cardinality({t \in Threads : Active(t)'}) <= 1
       /\ (presses' # presses /\ running)
            => UNCHANGED <<run, pc, uiPc, uiLog, running, fs>>]_vars

\* the second start request came while the first worker was in organise
C5_Witness ==
    /\ mode = "shell"
    /\ presses = 2
    /\ run = 1
    /\ running
    /\ uiPc = "idle"
    /\ pc[1] = "sync"
    /\ \A i \in 1..Len(uiLog) : uiLog[i].kind # "error"

\* C6: the sync loop starts when the scan loop has visited every entry, and
\* when organise returns every folder directly under root that holds a
\* regular file at any depth has atime = mtime = the newest mtime of those
\* files; a folder that holds none has the timestamps it had before the run.
C6_FolderTimes ==
    /\ \A t \in Threads : pc[t] = "sync" => todo[t] = {}
    /\ (run > 0 /\ result[run] = "returned") =>
          \A d \in Folders(fs, root[run]) :
              LET T == {fs[q].mtime : q \in FilesUnder(fs, d)}
              IN  IF T # {}
                  THEN fs[d].mtime = SetMax(T) /\ fs[d].atime = SetMax(T)
                  ELSE /\ d \in DOMAIN fsAt[run]
                       /\ fs[d].mtime = fsAt[run][d].mtime
                       /\ fs[d].atime = fsAt[run][d].atime

\* organise has returned and a folder holds files of different mtimes, one
\* of them moved in by this run
C6_Witness ==
    /\ run > 0
    /\ result[run] = "returned"
    /\ moved[run] > 0
    /\ \E d \in Folders(fs, root[run]) :
         /\ Cardinality({fs[q].mtime : q \in FilesUnder(fs, d)}) > 1
         /\ FilesUnder(fs, d) # FilesUnder(fsAt[run], d)

\* C7: a regular file of the root whose name matches no pattern stays at the
\* root unchanged; the folders of the root stay where they are with what
\* they held; and every new folder is named after the title of a titled
\* root file.
C7_UnmatchedUntouched ==
    /\ \A n \in LooseFiles(fs0, <<>>) :
          ~TitleOf(n).matched => (IsFile(fs, <<n>>) /\ fs[<<n>>] = fs0[<<n>>])
    /\ \A d \in Folders(fs0, <<>>) :
          /\ IsDir(fs, d)
          /\ \A p \in DOMAIN fs0 :
                (Len(p) > 1 /\ p[1] = d[1]) =>
                    (p \in DOMAIN fs /\ fs[p].kind = fs0[p].kind /\ fs[p].content = fs0[p].content)
    /\ \A p \in DOMAIN fs \ DOMAIN fs0 :
          fs[p].kind = "dir" => \E n \in Titled(fs0, <<>>) : p = Join(<<>>, TitleOf(n).title)

\* organise has returned, having moved a file and left an unmatched one, in
\* a root that holds a folder bearing a movie name
C7_Witness ==
    \E t \in Threads :
        /\ result[t] = "returned"
        /\ moved[t] > 0
        /\ IsFile(fs, <<nN1>>)
        /\ IsDir(fs0, <<nYD>>)

\* C8: the lines of a run that returned are one skip line per collision
\* and one move line per file moved, then the summary line, whose count is
\* the number of files moved.
C8_OutputLines ==
    \A t \in Threads :
        result[t] = "returned" =>
            LET n == Len(out[t])
                gone == {f \in LooseFiles(fsAt[t], root[t]) : ~Exists(fs, Append(root[t], f))}
                kept == {f \in Titled(fsAt[t], root[t]) : Exists(fs, Append(root[t], f))}
            IN  /\ n = 1 + Cardinality(gone) + Cardinality(kept)
                /\ out[t][n] = SummaryLine(Cardinality(gone))
                /\ {out[t][i].name : i \in Lines(t, "moved")} = gone
                /\ {out[t][i].name : i \in Lines(t, "skipped")} = kept
                /\ Lines(t, "moved") \cup Lines(t, "skipped") = 1..(n - 1)

\* a run has returned that skipped one file and moved another
C8_Witness ==
    \E t \in Threads :
        /\ result[t] = "returned"
        /\ Lines(t, "moved") # {}
        /\ Lines(t, "skipped") # {}
        /\ out[t][Len(out[t])].count = 1

\* C9 as stated: a run that reaches the sync loop ends with the summary,
\* every folder whose timestamps can be set being synchronized, also when
\* os.utime fails on some folder.
C9_SyncFailureTolerated ==
    \A t \in Threads :
        (pc[t] \in {"finally", "logdone", "end"} /\ result[t] \in {"returned", "PermissionError"})
            => /\ out[t] # <<>>
               /\ out[t][Len(out[t])].kind = "summary"
               /\ (t = run =>
                     \A d \in Folders(fs, root[t]) \ noUtime :
                         LET T == {fs[q].mtime : q \in FilesUnder(fs, d)}
                         IN  T # {} => fs[d].mtime = SetMax(T))

====
